---- MODULE Spec2Model ----
(***************************************************************************)
(* A model of src/src/compiler.ts: the four stage pipeline                 *)
(*   compile(input) = codeGenerator(transform(parser(tokenizer(input))))   *)
(* Text is modelled as a sequence of one-character strings.  Every stage   *)
(* is an operator translated from its function.  Spec runs compile         *)
(* invocations one after the other against the module-level state of       *)
(* compiler.ts (the three RegExp objects); SpecInterleaved runs the        *)
(* invocations of two callers alongside each other against that state.     *)
(***************************************************************************)
EXTENDS Integers, Sequences, FiniteSets, TLC

VARIABLES
    pc,         \* where the running invocation stands: "idle", the stage to run
                \* next, "done" (compile returned), "thrown" (an error escaped)
                \* or "aborted" (the engine ended the process)
    input,      \* compile's argument
    tokens,     \* what tokenizer returned
    ast,        \* what parser returned
    newAST,     \* what transform returned
    output,     \* what codeGenerator returned
    error,      \* the error thrown, if any
    lastIndex,  \* module level: the lastIndex of WHITESPACE, NUMBERS and LETTERS
    warm,       \* history: an invocation has already ended in this module instance
    other       \* the invocation of a second caller of the same module instance:
                \* its own pc, input, tokens, ast, newAST, output and error

vars == <<pc, input, tokens, ast, newAST, output, error, lastIndex, warm, other>>

(***************************************************************************)
(* Bounds of the input domain.                                             *)
(***************************************************************************)
MaxLen == 4

MaxLexemes == 6

\* the lexemes of an input text compiled while another invocation is running
MaxShared == 2

\* the recursion levels a call stack with little room left holds
ShallowStack == 1

\* a call stack deeper than any recursion on the inputs below
AmpleStack == 2 * (MaxLen + MaxLexemes) + 4

\* the characters raw input texts are drawn from
Chars == {"(", ")", " ", "0", "a", "\"", "'", "#"}

\* whole lexemes longer input texts are built from (the number follows a
\* no-break space)
Lexemes == { <<"(", "a">>, <<")">>, <<"U+00A0", "0", "7">>, <<"'", "b", "'">> }

RECURSIVE Flatten(_)
Flatten(ss) == IF ss = <<>> THEN <<>> ELSE Head(ss) \o Flatten(Tail(ss))

Texts(pieces, n) == { Flatten(s) : s \in UNION { [1..k -> pieces] : k \in 0..n } }

Inputs == Texts({ <<c>> : c \in Chars }, MaxLen) \cup Texts(Lexemes, MaxLexemes)

\* the input texts of two callers running alongside each other
SharedLexemes == { <<"(", "a">>, <<")">>, <<" ">>, <<"'", "b", "'">> }

SharedInputs == Texts(SharedLexemes, MaxShared)

(***************************************************************************)
(* The call stack.  Every stage runs on the engine's call stack and finds  *)
(* the room the caller and the engine left: none (the stage, or the first  *)
(* call its body makes, does not fit), or a number of levels of the        *)
(* stage's recursion.  The room is the engine's and differs from run to    *)
(* run.                                                                     *)
(***************************************************************************)
StackRooms == {0, ShallowStack, AmpleStack}

MaximumCallStack(stage) ==
    [name |-> "RangeError", stage |-> stage, detail |-> "Maximum call stack size exceeded"]

(***************************************************************************)
(* JavaScript values.                                                      *)
(***************************************************************************)
\* input[i] beyond the end of a string
Undefined == "undefined"

\* ToString(x) as RegExp.prototype.test applies it to its argument
ToChars(x) ==
    IF x = Undefined THEN <<"u", "n", "d", "e", "f", "i", "n", "e", "d">> ELSE <<x>>

NoError == [name |-> "none", stage |-> "none", detail |-> ""]

NoNode == [type |-> "null"]

(***************************************************************************)
(* Step 1: tokenizer.                                                      *)
(***************************************************************************)
\* what \s matches; a character that cannot be written in a string of this
\* module is written as its code unit
WhitespaceClass ==
    {" ", "\t", "\n", "\r", "\f", "U+000B", "U+00A0", "U+1680",
     "U+2000", "U+2001", "U+2002", "U+2003", "U+2004", "U+2005", "U+2006",
     "U+2007", "U+2008", "U+2009", "U+200A", "U+2028", "U+2029", "U+202F",
     "U+205F", "U+3000", "U+FEFF"}

DigitClass == {"0", "1", "2", "3", "4", "5", "6", "7", "8", "9"}

LetterClass ==
    {"a", "b", "c", "d", "e", "f", "g", "h", "i", "j", "k", "l", "m",
     "n", "o", "p", "q", "r", "s", "t", "u", "v", "w", "x", "y", "z",
     "A", "B", "C", "D", "E", "F", "G", "H", "I", "J", "K", "L", "M",
     "N", "O", "P", "Q", "R", "S", "T", "U", "V", "W", "X", "Y", "Z"}

\* /\s/g : the same matcher with the global flag, which makes test() stateful
WHITESPACE_global == [id |-> "WHITESPACE", class |-> WhitespaceClass, global |-> TRUE]

WHITESPACE == [id |-> "WHITESPACE", class |-> WhitespaceClass, global |-> FALSE]

NUMBERS == [id |-> "NUMBERS", class |-> DigitClass, global |-> FALSE]

LETTERS == [id |-> "LETTERS", class |-> LetterClass, global |-> FALSE]

\* the lastIndex of each RegExp object after module load
InitialLastIndex == [WHITESPACE |-> 0, NUMBERS |-> 0, LETTERS |-> 0]

SetMin(S) == CHOOSE m \in S : \A x \in S : m <= x

\* re.test(x): a flagless RegExp searches from 0 and leaves lastIndex alone;
\* a global one searches from lastIndex and stores where the match ended
RegExpTest(re, li, x) ==
    LET cs    == ToChars(x)
        start == IF re.global THEN li[re.id] ELSE 0
        hits  == { i \in start..(Len(cs) - 1) : cs[i + 1] \in re.class }
    IN  IF hits = {}
        THEN [found |-> FALSE,
              li |-> IF re.global THEN [li EXCEPT ![re.id] = 0] ELSE li]
        ELSE [found |-> TRUE,
              li |-> IF re.global THEN [li EXCEPT ![re.id] = SetMin(hits) + 1] ELSE li]

\* input[curr], curr counted from 0
CharAt(text, curr) == IF curr < Len(text) THEN text[curr + 1] ELSE Undefined

Token(type, value) == [type |-> type, value |-> value]

\* while (re.test(char)) { value += char; char = input[++curr]; }
\* Once curr is past the end, char stays undefined: a flagless matcher that
\* accepts "undefined" accepts it for ever, value grows without bound and the
\* loop ends only when the engine gives up (resource exhaustion).
RECURSIVE RunLoop(_, _, _, _, _)
RunLoop(re, text, curr, value, li) ==
    LET char == CharAt(text, curr)
        t    == RegExpTest(re, li, char)
    IN  IF ~t.found
        THEN [runaway |-> FALSE, curr |-> curr, value |-> value, li |-> t.li]
        ELSE IF char = Undefined /\ ~re.global
             THEN [runaway |-> TRUE, curr |-> curr, value |-> value, li |-> t.li]
             ELSE RunLoop(re, text, curr + 1, value \o ToChars(char), t.li)

\* char = input[++curr]; while (char != quote) { value += char; char = input[++curr]; }
RECURSIVE QuoteLoop(_, _, _, _)
QuoteLoop(quote, text, curr, value) ==
    LET char == CharAt(text, curr)
    IN  IF char = quote
        THEN [runaway |-> FALSE, curr |-> curr, value |-> value]
        ELSE IF char = Undefined
             THEN [runaway |-> TRUE, curr |-> curr, value |-> value]
             ELSE QuoteLoop(quote, text, curr + 1, Append(value, char))

\* how a loop with no exit ends: the engine either throws RangeError when
\* value reaches its string length limit, or, when the heap runs out before
\* that, aborts the process (nothing is thrown, nothing runs afterwards)
ExhaustionOutcomes == {"thrown", "aborted"}

InvalidStringLength ==
    [name |-> "RangeError", stage |-> "tokenizer", detail |-> "Invalid string length"]

Exhausted(toks, li) ==
    [status |-> "exhausted", tokens |-> toks, li |-> li, error |-> InvalidStringLength]

\* one pass of while (curr < input.length) { ... } and the rest of the loop
RECURSIVE TokenizerLoop(_, _, _, _)
TokenizerLoop(text, curr, toks, li) ==
    IF ~(curr < Len(text))
    THEN [status |-> "ok", tokens |-> toks, li |-> li, error |-> NoError]
    ELSE
    LET char == CharAt(text, curr) IN
    IF char = "(" \/ char = ")"
    THEN TokenizerLoop(text, curr + 1, Append(toks, Token("parenthesis", <<char>>)), li)
    ELSE
    LET ws == RegExpTest(WHITESPACE, li, char) IN
    IF ws.found
    THEN TokenizerLoop(text, curr + 1, toks, ws.li)
    ELSE
    LET num == RegExpTest(NUMBERS, ws.li, char) IN
    IF num.found
    THEN LET r == RunLoop(NUMBERS, text, curr, <<>>, num.li)
         IN  IF r.runaway THEN Exhausted(toks, r.li)
             ELSE TokenizerLoop(text, r.curr, Append(toks, Token("number", r.value)), r.li)
    ELSE
    IF char = "\"" \/ char = "'"
    THEN LET r == QuoteLoop(char, text, curr + 1, <<>>)
         IN  IF r.runaway THEN Exhausted(toks, num.li)
             ELSE TokenizerLoop(text, r.curr + 1, Append(toks, Token("string", r.value)), num.li)
    ELSE
    LET let == RegExpTest(LETTERS, num.li, char) IN
    IF let.found
    THEN LET r == RunLoop(LETTERS, text, curr, <<>>, let.li)
         IN  IF r.runaway THEN Exhausted(toks, r.li)
             ELSE TokenizerLoop(text, r.curr, Append(toks, Token("name", r.value)), r.li)
    ELSE [status |-> "thrown", tokens |-> toks, li |-> let.li,
          error |-> [name |-> "TypeError", stage |-> "tokenizer", detail |-> char]]

\* room: the stack room tokenizer finds; its body recurses nowhere, so any
\* room but none is enough
tokenizer(text, li, room) ==
    IF room < 1
    THEN [status |-> "thrown", tokens |-> <<>>, li |-> li,
          error |-> MaximumCallStack("tokenizer")]
    ELSE TokenizerLoop(text, 0, <<>>, li)

(***************************************************************************)
(* Step 2: parser.                                                         *)
(***************************************************************************)
\* tokens[curr] past the end of the array is the value undefined, which is
\* no token object: it has no type and no value
UndefinedToken == [undefined |-> TRUE]

IsUndefined(token) == "type" \notin DOMAIN token

\* tokens[curr] past the end read as a closing parenthesis
TokenAt_closing(toks, curr) ==
    IF curr < Len(toks) THEN toks[curr + 1] ELSE Token("parenthesis", <<")">>)

\* tokens[curr], curr counted from 0
TokenAt(toks, curr) == IF curr < Len(toks) THEN toks[curr + 1] ELSE UndefinedToken

ParseThrow(detail) ==
    [ok |-> FALSE, node |-> NoNode, curr |-> 0,
     error |-> [name |-> "TypeError", stage |-> "parser", detail |-> detail]]

\* the params loop stopping at any parenthesis token
ContinueParams_anyParen(token) == token.type # "parenthesis"

\* the condition of the params loop: the current token is not ")"
ContinueParams(token) ==
    \/ token.type # "parenthesis"
    \/ (token.type = "parenthesis" /\ token.value # <<")">>)

RECURSIVE walk(_, _, _), ParamsLoop(_, _, _, _, _)
\* while (...) { node.params.push(walk()); token = tokens[curr]; }  curr++;
\* room: the levels of walk the stack still holds, this one included
ParamsLoop(toks, curr, name, params, room) ==
    LET token == TokenAt(toks, curr) IN
    IF IsUndefined(token)
    THEN ParseThrow("undefined")              \* token.type of undefined
    ELSE IF ContinueParams(token)
         THEN LET w == walk(toks, curr, room - 1)
              IN  IF ~w.ok THEN w
                  ELSE ParamsLoop(toks, w.curr, name, Append(params, w.node), room)
         ELSE [ok |-> TRUE, curr |-> curr + 1, error |-> NoError,
               node |-> [type |-> "CallExpression", name |-> name, params |-> params]]

walk(toks, curr, room) ==
    LET token == TokenAt(toks, curr) IN
    IF room < 1
    THEN [ok |-> FALSE, node |-> NoNode, curr |-> 0, error |-> MaximumCallStack("parser")]
    ELSE IF IsUndefined(token)
    THEN ParseThrow("undefined")              \* token.type of undefined
    ELSE IF token.type = "number"
    THEN [ok |-> TRUE, curr |-> curr + 1, error |-> NoError,
          node |-> [type |-> "NumberLiteral", value |-> token.value]]
    ELSE IF token.type = "string"
    THEN [ok |-> TRUE, curr |-> curr + 1, error |-> NoError,
          node |-> [type |-> "stringLiteral", value |-> token.value]]
    ELSE IF token.type = "parenthesis" /\ token.value = <<"(">>
    THEN LET callee == TokenAt(toks, curr + 1)
         IN  IF IsUndefined(callee)
             THEN ParseThrow("undefined")     \* token.value of undefined
             ELSE ParamsLoop(toks, curr + 2, callee.value, <<>>, room)
    ELSE ParseThrow(token.type)

\* while (curr < tokens.length) { ast.body.push(walk()); }
RECURSIVE ParserLoop(_, _, _, _)
ParserLoop(toks, curr, body, room) ==
    IF ~(curr < Len(toks))
    THEN [status |-> "ok", ast |-> [type |-> "Program", body |-> body], error |-> NoError]
    ELSE LET w == walk(toks, curr, room)
         IN  IF ~w.ok
             THEN [status |-> "thrown", ast |-> NoNode, error |-> w.error]
             ELSE ParserLoop(toks, w.curr, Append(body, w.node), room)

parser(toks, room) ==
    IF room < 1
    THEN [status |-> "thrown", ast |-> NoNode, error |-> MaximumCallStack("parser")]
    ELSE ParserLoop(toks, 0, <<>>, room)

(***************************************************************************)
(* Step 3: transform.  The target tree is built by mutation through        *)
(* references: a heap maps each allocated array (newAST.body, and the      *)
(* arguments array of every target CallExpression) to its contents, and a  *)
(* source node's _context is the address of such an array.                 *)
(***************************************************************************)
\* array.unshift(item)
ArrayPush_front(heap, ref, item) == [heap EXCEPT ![ref] = <<item>> \o @]

\* array.push(item)
ArrayPush(heap, ref, item) == [heap EXCEPT ![ref] = Append(@, item)]

\* the parent handed to a visitor method is a node, [type, context] with
\* context 0 for no _context, or the value null (at the root)
NullParent == [null |-> TRUE]

IsNull(parent) == "type" \notin DOMAIN parent

\* parent?._context?.push(item)
OptionalPush(heap, parent, item) ==
    IF IsNull(parent) THEN heap
    ELSE IF parent.context = 0 THEN heap
    ELSE ArrayPush(heap, parent.context, item)

\* every call wrapped in a statement
WrapsInStatement_always(parent) == TRUE

\* parent.type !== 'CallExpression', parent a node: it has no value for null,
\* where the read of parent.type throws (see Enter)
WrapsInStatement(parent) == parent.type # "CallExpression"

\* the keys of the visitor table
visitor == {"NumberLiteral", "StringLiteral", "CallExpression"}

\* visitor[node.type].enter(node, parent): the heap after it, and the
\* _context it gave the node (0: none)
Enter(node, parent, heap) ==
    IF node.type = "NumberLiteral"
    THEN [ok |-> TRUE, error |-> NoError, context |-> 0,
          heap |-> OptionalPush(heap, parent,
                        [type |-> "NumberLiteral", value |-> node.value])]
    ELSE IF node.type = "StringLiteral"
    THEN [ok |-> TRUE, error |-> NoError, context |-> 0,
          heap |-> OptionalPush(heap, parent,
                        [type |-> "StringLiteral", value |-> node.value])]
    ELSE \* CallExpression
         LET args == Len(heap) + 1           \* arguments: [] is a new array
             call == [type |-> "CallExpression",
                      callee |-> [type |-> "Identifier", name |-> node.name],
                      arguments |-> args]
         IN  IF IsNull(parent)               \* parent.type of null
             THEN [ok |-> FALSE, context |-> args, heap |-> Append(heap, <<>>),
                   error |-> [name |-> "TypeError", stage |-> "transform", detail |-> "null"]]
             ELSE LET expression ==
                          IF WrapsInStatement(parent)
                          THEN [type |-> "ExpressionStatement", expression |-> call]
                          ELSE call
                  IN  [ok |-> TRUE, error |-> NoError, context |-> args,
                       heap |-> OptionalPush(Append(heap, <<>>), parent, expression)]

RECURSIVE nodeTraversal(_, _, _, _), arrayTraversal(_, _, _, _, _)
\* arr.forEach(child => nodeTraversal(child, parent)), from the i-th child on
arrayTraversal(arr, i, parent, heap, room) ==
    IF i > Len(arr) THEN [ok |-> TRUE, heap |-> heap, error |-> NoError]
    ELSE LET r == nodeTraversal(arr[i], parent, heap, room)
         IN  IF ~r.ok THEN r ELSE arrayTraversal(arr, i + 1, parent, r.heap, room)

\* node carries its own _context: [node |-> the source node, context |-> address]
\* room: the levels of nodeTraversal the stack still holds, this one included
nodeTraversal(n, parent, heap, room) ==
    LET node    == n.node
        entered == IF node.type \in visitor
                   THEN Enter(node, parent, heap)
                   ELSE [ok |-> TRUE, error |-> NoError, heap |-> heap, context |-> n.context]
        self    == [type |-> node.type, context |-> entered.context]
    IN  IF room < 1
        THEN [ok |-> FALSE, heap |-> heap, error |-> MaximumCallStack("transform")]
        ELSE IF ~entered.ok
        THEN [ok |-> FALSE, heap |-> entered.heap, error |-> entered.error]
        ELSE IF node.type = "Program"
        THEN arrayTraversal([i \in 1..Len(node.body) |->
                                [node |-> node.body[i], context |-> 0]],
                            1, self, entered.heap, room - 1)
        ELSE IF node.type = "CallExpression"
        THEN arrayTraversal([i \in 1..Len(node.params) |->
                                [node |-> node.params[i], context |-> 0]],
                            1, self, entered.heap, room - 1)
        ELSE IF node.type \in {"NumberLiteral", "StringLiteral"}
        THEN [ok |-> TRUE, heap |-> entered.heap, error |-> NoError]
        ELSE [ok |-> FALSE, heap |-> entered.heap,
              error |-> [name |-> "TypeError", stage |-> "transform", detail |-> node.type]]

\* nodeTraversal(ast, null)
traversal(root, heap, room) == nodeTraversal(root, NullParent, heap, room)

\* the target tree read off the heap: each arguments address replaced by
\* the array it points to
RECURSIVE Deref(_, _)
Deref(heap, item) ==
    IF item.type = "ExpressionStatement"
    THEN [type |-> "ExpressionStatement", expression |-> Deref(heap, item.expression)]
    ELSE IF item.type = "CallExpression"
    THEN [type |-> "CallExpression", callee |-> item.callee,
          arguments |-> [i \in 1..Len(heap[item.arguments]) |->
                            Deref(heap, heap[item.arguments][i])]]
    ELSE item

\* newAST = {type: 'Program', body: []}; ast._context = newAST.body; traversal(...)
transform(tree, room) ==
    LET r == traversal([node |-> tree, context |-> 1], << <<>> >>, room)
    IN  IF ~r.ok
        THEN [status |-> "thrown", newAST |-> NoNode, error |-> r.error]
        ELSE [status |-> "ok", error |-> NoError,
              newAST |-> [type |-> "Program",
                          body |-> [i \in 1..Len(r.heap[1]) |-> Deref(r.heap, r.heap[1][i])]]]

(***************************************************************************)
(* Step 4: codeGenerator.                                                  *)
(***************************************************************************)
\* strings.join(separator)
RECURSIVE Join(_, _)
Join(strs, sep) ==
    IF strs = <<>> THEN <<>>
    ELSE IF Len(strs) = 1 THEN strs[1]
    ELSE strs[1] \o sep \o Join(Tail(strs), sep)

RECURSIVE StripZeros(_)
StripZeros(digits) ==
    IF Len(digits) > 1 /\ Head(digits) = "0" THEN StripZeros(Tail(digits)) ELSE digits

\* the number re-parsed and printed: String(Number(node.value))
NumberText_reparsed(node) == StripZeros(node.value)

\* case 'NumberLiteral': return node.value
NumberText(node) == node.value

\* case 'StringLiteral': return '"' + node.value + '"'
StringText(node) == <<"\"">> \o node.value \o <<"\"">>

GenOk(text) == [ok |-> TRUE, text |-> text, error |-> NoError]

RECURSIVE codeGenerator(_, _), MapCodeGenerator(_, _, _, _)
\* nodes.map(codeGenerator), from the i-th node on
MapCodeGenerator(nodes, i, done, room) ==
    IF i > Len(nodes) THEN [ok |-> TRUE, texts |-> done, error |-> NoError]
    ELSE LET g == codeGenerator(nodes[i], room)
         IN  IF ~g.ok THEN [ok |-> FALSE, texts |-> <<>>, error |-> g.error]
             ELSE MapCodeGenerator(nodes, i + 1, Append(done, g.text), room)

\* room: the levels of codeGenerator the stack still holds, this one included
codeGenerator(node, room) ==
    IF room < 1
    THEN [ok |-> FALSE, text |-> <<>>, error |-> MaximumCallStack("codeGenerator")]
    ELSE IF node.type = "Program"
    THEN LET m == MapCodeGenerator(node.body, 1, <<>>, room - 1)
         IN  IF ~m.ok THEN [ok |-> FALSE, text |-> <<>>, error |-> m.error]
             ELSE GenOk(Join(m.texts, <<"\n">>))
    ELSE IF node.type = "ExpressionStatement"
    THEN LET g == codeGenerator(node.expression, room - 1)
         IN  IF ~g.ok THEN g ELSE GenOk(g.text \o <<";">>)
    ELSE IF node.type = "CallExpression"
    THEN LET c == codeGenerator(node.callee, room - 1)
             m == MapCodeGenerator(node.arguments, 1, <<>>, room - 1)
         IN  IF ~c.ok THEN c
             ELSE IF ~m.ok THEN [ok |-> FALSE, text |-> <<>>, error |-> m.error]
             ELSE GenOk(c.text \o <<"(">> \o Join(m.texts, <<",", " ">>) \o <<")">>)
    ELSE IF node.type = "Identifier"
    THEN GenOk(node.name)
    ELSE IF node.type = "NumberLiteral"
    THEN GenOk(NumberText(node))
    ELSE IF node.type = "StringLiteral"
    THEN GenOk(StringText(node))
    ELSE [ok |-> FALSE, text |-> <<>>,
          error |-> [name |-> "TypeError", stage |-> "codeGenerator", detail |-> node.type]]

(***************************************************************************)
(* compile, run from a given state of the module's RegExp objects with the *)
(* stack room each stage finds: the outcome of the whole pipeline          *)
(* ("exhausted": one of ExhaustionOutcomes, as the engine has it).         *)
(***************************************************************************)
Outcome(status, text, err) == [status |-> status, output |-> text, error |-> err]

Stages == {"tokenizer", "parser", "transform", "codeGenerator"}

compile(text, li, rooms) ==
    LET t == tokenizer(text, li, rooms["tokenizer"]) IN
    IF t.status # "ok" THEN Outcome(t.status, <<>>, t.error) ELSE
    LET p == parser(t.tokens, rooms["parser"]) IN
    IF p.status # "ok" THEN Outcome("thrown", <<>>, p.error) ELSE
    LET x == transform(p.ast, rooms["transform"]) IN
    IF x.status # "ok" THEN Outcome("thrown", <<>>, x.error) ELSE
    LET g == codeGenerator(x.newAST, rooms["codeGenerator"]) IN
    IF ~g.ok THEN Outcome("thrown", <<>>, g.error) ELSE Outcome("done", g.text, NoError)

(***************************************************************************)
(* The specification: compile invocations, one after the other, each run   *)
(* stage by stage.                                                         *)
(***************************************************************************)
\* the second caller between two invocations
OtherIdle ==
    [pc |-> "idle", input |-> <<>>, tokens |-> <<>>, ast |-> NoNode, newAST |-> NoNode,
     output |-> <<>>, error |-> NoError]

Init ==
    /\ pc = "idle"
    /\ input = <<>>
    /\ tokens = <<>>
    /\ ast = NoNode
    /\ newAST = NoNode
    /\ output = <<>>
    /\ error = NoError
    /\ lastIndex = InitialLastIndex
    /\ warm = FALSE
    /\ other = OtherIdle

Compile(text) ==
    /\ pc = "idle"
    /\ pc' = "tokenizer"
    /\ input' = text
    /\ UNCHANGED <<tokens, ast, newAST, output, error, lastIndex, warm, other>>

Tokenizer ==
    /\ pc = "tokenizer"
    /\ \E room \in StackRooms :
       LET r == tokenizer(input, lastIndex, room)
       IN  /\ lastIndex' = r.li
           /\ IF r.status = "ok"
              THEN /\ tokens' = r.tokens
                   /\ pc' = "parser"
                   /\ error' = NoError
              ELSE IF r.status = "thrown"
              THEN /\ tokens' = <<>>
                   /\ pc' = "thrown"
                   /\ error' = r.error
              ELSE /\ tokens' = <<>>
                   /\ \E how \in ExhaustionOutcomes :
                         /\ pc' = how
                         /\ error' = IF how = "thrown" THEN r.error ELSE NoError
    /\ UNCHANGED <<input, ast, newAST, output, warm, other>>

Parser ==
    /\ pc = "parser"
    /\ \E room \in StackRooms :
       LET r == parser(tokens, room)
       IN  /\ ast' = r.ast
           /\ error' = r.error
           /\ pc' = IF r.status = "ok" THEN "transform" ELSE "thrown"
    /\ UNCHANGED <<input, tokens, newAST, output, lastIndex, warm, other>>

Transform ==
    /\ pc = "transform"
    /\ \E room \in StackRooms :
       LET r == transform(ast, room)
       IN  /\ newAST' = r.newAST
           /\ error' = r.error
           /\ pc' = IF r.status = "ok" THEN "codeGenerator" ELSE "thrown"
    /\ UNCHANGED <<input, tokens, ast, output, lastIndex, warm, other>>

CodeGenerator ==
    /\ pc = "codeGenerator"
    /\ \E room \in StackRooms :
       LET r == codeGenerator(newAST, room)
       IN  /\ output' = r.text
           /\ error' = r.error
           /\ pc' = IF r.ok THEN "done" ELSE "thrown"
    /\ UNCHANGED <<input, tokens, ast, newAST, lastIndex, warm, other>>

\* compile returns or throws to its caller: every local is dropped, the
\* module-level RegExp objects stay
Return ==
    /\ pc \in {"done", "thrown"}
    /\ pc' = "idle"
    /\ input' = <<>>
    /\ tokens' = <<>>
    /\ ast' = NoNode
    /\ newAST' = NoNode
    /\ output' = <<>>
    /\ error' = NoError
    /\ warm' = TRUE
    /\ UNCHANGED <<lastIndex, other>>

Next ==
    \/ pc = "idle" /\ \E text \in Inputs : Compile(text)
    \/ Tokenizer
    \/ Parser
    \/ Transform
    \/ CodeGenerator
    \/ Return

Spec == Init /\ [][Next]_vars

(***************************************************************************)
(* Two callers of one module instance.  The second caller's invocation     *)
(* runs the same stage functions on its own locals and on the same RegExp  *)
(* objects, and the two invocations are interleaved at every stage         *)
(* boundary.  This is more interleaving than an engine gives (compile is   *)
(* synchronous and runs to completion, so invocations of one module        *)
(* instance follow one another, and another thread has its own module      *)
(* instance): what holds of every interleaving holds of those.             *)
(***************************************************************************)
mine == <<pc, input, tokens, ast, newAST, output, error>>

OtherCompile(text) ==
    /\ other.pc = "idle"
    /\ other' = [OtherIdle EXCEPT !.pc = "tokenizer", !.input = text]
    /\ UNCHANGED <<mine, lastIndex, warm>>

OtherTokenizer ==
    /\ other.pc = "tokenizer"
    /\ \E room \in StackRooms :
       LET r == tokenizer(other.input, lastIndex, room)
       IN  /\ lastIndex' = r.li
           /\ IF r.status = "ok"
              THEN other' = [other EXCEPT !.tokens = r.tokens, !.pc = "parser"]
              ELSE IF r.status = "thrown"
              THEN other' = [other EXCEPT !.error = r.error, !.pc = "thrown"]
              ELSE \E how \in ExhaustionOutcomes :
                      other' = [other EXCEPT !.pc = how,
                                  !.error = IF how = "thrown" THEN r.error ELSE NoError]
    /\ UNCHANGED <<mine, warm>>

OtherParser ==
    /\ other.pc = "parser"
    /\ \E room \in StackRooms :
       LET r == parser(other.tokens, room)
       IN  other' = [other EXCEPT !.ast = r.ast, !.error = r.error,
                       !.pc = IF r.status = "ok" THEN "transform" ELSE "thrown"]
    /\ UNCHANGED <<mine, lastIndex, warm>>

OtherTransform ==
    /\ other.pc = "transform"
    /\ \E room \in StackRooms :
       LET r == transform(other.ast, room)
       IN  other' = [other EXCEPT !.newAST = r.newAST, !.error = r.error,
                       !.pc = IF r.status = "ok" THEN "codeGenerator" ELSE "thrown"]
    /\ UNCHANGED <<mine, lastIndex, warm>>

OtherCodeGenerator ==
    /\ other.pc = "codeGenerator"
    /\ \E room \in StackRooms :
       LET r == codeGenerator(other.newAST, room)
       IN  other' = [other EXCEPT !.output = r.text, !.error = r.error,
                       !.pc = IF r.ok THEN "done" ELSE "thrown"]
    /\ UNCHANGED <<mine, lastIndex, warm>>

OtherReturn ==
    /\ other.pc \in {"done", "thrown"}
    /\ other' = OtherIdle
    /\ warm' = TRUE
    /\ UNCHANGED <<mine, lastIndex>>

\* the process has not been aborted
Alive == pc # "aborted" /\ other.pc # "aborted"

NextInterleaved ==
    \/ Alive /\ pc = "idle" /\ \E text \in SharedInputs : Compile(text)
    \/ Alive /\ Tokenizer
    \/ Alive /\ Parser
    \/ Alive /\ Transform
    \/ Alive /\ CodeGenerator
    \/ Alive /\ Return
    \/ Alive /\ other.pc = "idle" /\ \E text \in SharedInputs : OtherCompile(text)
    \/ Alive /\ OtherTokenizer
    \/ Alive /\ OtherParser
    \/ Alive /\ OtherTransform
    \/ Alive /\ OtherCodeGenerator
    \/ Alive /\ OtherReturn

SpecInterleaved == Init /\ [][NextInterleaved]_vars

(***************************************************************************)
(* Where an invocation stands.                                             *)
(***************************************************************************)
Finished == pc \in {"done", "thrown"}

LexFailed == (pc = "thrown" /\ error.stage = "tokenizer") \/ pc = "aborted"

\* a stage ran out of call stack
StackOverflowed == pc = "thrown" /\ error = MaximumCallStack(error.stage)

LexOk == pc \in {"parser", "transform", "codeGenerator", "done"}
             \/ (pc = "thrown" /\ error.stage # "tokenizer")

ParseFailed == pc = "thrown" /\ error.stage = "parser"

ParsedOk == pc \in {"transform", "codeGenerator", "done"}
                \/ (pc = "thrown" /\ error.stage \in {"transform", "codeGenerator"})

TransformedOk == pc \in {"codeGenerator", "done"}
                     \/ (pc = "thrown" /\ error.stage = "codeGenerator")

(***************************************************************************)
(* The token sequence read as the grammar reads it, without the parser:    *)
(* the token after an opening parenthesis is a callee, whatever it is; any *)
(* other "(" opens a call and any other ")" closes one.                    *)
(***************************************************************************)
LP == Token("parenthesis", <<"(">>)

RP == Token("parenthesis", <<")">>)

RECURSIVE IsCallee(_, _)
IsCallee(toks, i) == i > 1 /\ toks[i - 1] = LP /\ ~IsCallee(toks, i - 1)

Opens(toks) == { i \in 1..Len(toks) : toks[i] = LP /\ ~IsCallee(toks, i) }

Closes(toks) == { i \in 1..Len(toks) : toks[i] = RP /\ ~IsCallee(toks, i) }

\* the calls open after the first k tokens
Depth(toks, k) ==
    Cardinality({ i \in Opens(toks) : i <= k }) - Cardinality({ i \in Closes(toks) : i <= k })

\* a name token, or a ")" with no call open, where an expression is expected
Stray(toks) ==
    \E i \in 1..Len(toks) :
        /\ ~IsCallee(toks, i)
        /\ \/ toks[i].type = "name"
           \/ (toks[i] = RP /\ Depth(toks, i) < 0)

\* the tokens run out while a call is open
Unclosed(toks) == Depth(toks, Len(toks)) > 0

RECURSIVE CountCalls(_), CountCallsIn(_)
CountCallsIn(nodes) ==
    IF nodes = <<>> THEN 0 ELSE CountCalls(Head(nodes)) + CountCallsIn(Tail(nodes))

\* the CallExpression nodes of a source tree
CountCalls(node) ==
    IF node.type = "Program" THEN CountCallsIn(node.body)
    ELSE IF node.type = "CallExpression" THEN 1 + CountCallsIn(node.params)
    ELSE 0

(***************************************************************************)
(* C6: parser ends on every token sequence, with a complete Program or     *)
(* with an error and no tree; it fails whenever the tokens run out while a *)
(* parenthesis is open and whenever a name token or a ")" stands where an  *)
(* expression is expected; otherwise it returns a Program, unless parser   *)
(* or the recursion of walk runs out of call stack.                        *)
(***************************************************************************)
C6_ParserFailsOnMalformed ==
    (ParsedOk \/ ParseFailed) =>
        /\ Unclosed(tokens) => ParseFailed
        /\ Stray(tokens) => ParseFailed
        /\ ParseFailed => (Unclosed(tokens) \/ Stray(tokens) \/ StackOverflowed)
        /\ ParseFailed =>
              /\ ast = NoNode
              /\ error.name = IF StackOverflowed THEN "RangeError" ELSE "TypeError"
        /\ ParsedOk => ast.type = "Program"

\* parser ran out of tokens inside an open call, after its callee
C6_Witness ==
    /\ ParseFailed
    /\ ~StackOverflowed
    /\ Unclosed(tokens)
    /\ ~Stray(tokens)
    /\ Len(tokens) >= 3

(***************************************************************************)
(* C10 as claimed: whenever parser returns a Program, the number of        *)
(* CallExpression nodes equals the number of "(" tokens and the number of  *)
(* ")" tokens, and no prefix of the tokens has more ")" than "(".          *)
(***************************************************************************)
AllLP(toks, k) == { i \in 1..k : toks[i] = LP }

AllRP(toks, k) == { i \in 1..k : toks[i] = RP }

C10_Claimed_AllParens ==
    ParsedOk =>
        /\ CountCalls(ast) = Cardinality(AllLP(tokens, Len(tokens)))
        /\ CountCalls(ast) = Cardinality(AllRP(tokens, Len(tokens)))
        /\ \A k \in 1..Len(tokens) :
              Cardinality(AllRP(tokens, k)) <= Cardinality(AllLP(tokens, k))

(***************************************************************************)
(* C10 amended: whenever parser returns a Program, the number of           *)
(* CallExpression nodes equals the number of "(" tokens that are not       *)
(* callees and the number of ")" tokens that are not callees, and no       *)
(* prefix of the tokens has more such ")" than such "(".                   *)
(***************************************************************************)
C10_CallsMatchParenPairs ==
    ParsedOk =>
        /\ CountCalls(ast) = Cardinality(Opens(tokens))
        /\ CountCalls(ast) = Cardinality(Closes(tokens))
        /\ \A k \in 1..Len(tokens) : Depth(tokens, k) >= 0

\* a Program with a call nested in a call
C10_Witness ==
    /\ ParsedOk
    /\ CountCalls(ast) >= 2
    /\ \E i \in 1..Len(ast.body) :
          /\ ast.body[i].type = "CallExpression"
          /\ \E j \in 1..Len(ast.body[i].params) :
                ast.body[i].params[j].type = "CallExpression"

(***************************************************************************)
(* The input text read without the tokenizer: which characters stand       *)
(* outside string literals, and whether every opening quote is closed.     *)
(***************************************************************************)
QuoteChars == {"\"", "'"}

LexicalChars == WhitespaceClass \cup DigitClass \cup LetterClass \cup QuoteChars \cup {"(", ")"}

\* quote: the quote character of the string literal position i is in, "" outside
RECURSIVE TextScan(_, _, _)
TextScan(text, i, quote) ==
    IF i > Len(text) THEN [closed |-> quote = "", bad |-> FALSE]
    ELSE IF quote # ""
    THEN TextScan(text, i + 1, IF text[i] = quote THEN "" ELSE quote)
    ELSE IF text[i] \in QuoteChars
    THEN TextScan(text, i + 1, text[i])
    ELSE LET rest == TextScan(text, i + 1, "")
         IN  [closed |-> rest.closed, bad |-> rest.bad \/ text[i] \notin LexicalChars]

(***************************************************************************)
(* C5 as claimed: on every input whose string literals are all closed,     *)
(* tokenizer returns a token sequence when every character outside the     *)
(* strings is whitespace, a digit, a letter, a quote or a parenthesis      *)
(* (also when a digit run or a letter run ends the input), and fails with  *)
(* its syntax error exactly when it meets a character outside that set.    *)
(* Stated for the invocations that do not run out of call stack.           *)
(***************************************************************************)
C5_Claimed_TokenizerTotal ==
    ((LexOk \/ LexFailed) /\ ~StackOverflowed /\ TextScan(input, 1, "").closed) =>
        /\ LexOk <=> ~TextScan(input, 1, "").bad
        /\ LexFailed => error.name = "TypeError"

(***************************************************************************)
(* The accepted grammar on tokens: program := expr*, expr := number |      *)
(* string | call, call := "(" name expr* ")".                              *)
(***************************************************************************)
WellFormedProgram(toks) ==
    /\ ~Stray(toks)
    /\ ~Unclosed(toks)
    /\ \A i \in 1..Len(toks) : IsCallee(toks, i) => toks[i].type = "name"

\* the tokens that start a top-level expression
TopLevel(toks) ==
    { i \in 1..Len(toks) : ~IsCallee(toks, i) /\ Depth(toks, i - 1) = 0 /\ toks[i] # RP }

LineCount(text) ==
    IF text = <<>> THEN 0 ELSE 1 + Cardinality({ i \in 1..Len(text) : text[i] = "\n" })

(***************************************************************************)
(* C1 as claimed: on every well-formed input compile ends without an error *)
(* and returns a non-empty string with exactly one line per top-level      *)
(* expression.  Stated for the programs that have an expression (the       *)
(* program of none compiles to the empty string, which has no line) and    *)
(* for the invocations that do not run out of call stack.                  *)
(***************************************************************************)
C1_Claimed_OneLinePerExpression ==
    (/\ Finished /\ LexOk /\ ~StackOverflowed
     /\ WellFormedProgram(tokens) /\ TopLevel(tokens) # {}) =>
        /\ pc = "done"
        /\ output # <<>>
        /\ LineCount(output) = Cardinality(TopLevel(tokens))

(***************************************************************************)
(* C2 as claimed: whenever a call has string literal arguments, compile    *)
(* succeeds and the output holds each of them as its content between two   *)
(* double-quote characters.  Stated for the invocations that do not run    *)
(* out of call stack.                                                      *)
(***************************************************************************)
IsStringNode(node) == node.type \in {"stringLiteral", "StringLiteral"}

RECURSIVE StringArgs(_)
\* the values of the string literals that are arguments of a call, at any depth
StringArgs(node) ==
    LET kids == IF node.type = "Program" THEN node.body
                ELSE IF node.type = "CallExpression" THEN node.params
                ELSE <<>>
        own  == IF node.type = "CallExpression"
                THEN { kids[i].value : i \in { j \in 1..Len(kids) : IsStringNode(kids[j]) } }
                ELSE {}
    IN  own \cup UNION { StringArgs(kids[i]) : i \in 1..Len(kids) }

Contains(text, part) ==
    \E k \in 0..(Len(text) - Len(part)) :
        \A j \in 1..Len(part) : text[k + j] = part[j]

C2_Claimed_StringArguments ==
    (Finished /\ ParsedOk /\ ~StackOverflowed /\ StringArgs(ast) # {}) =>
        /\ pc = "done"
        /\ \A v \in StringArgs(ast) : Contains(output, <<"\"">> \o v \o <<"\"">>)

(***************************************************************************)
(* C9 as claimed: whenever parser returns a Program, neither transform nor *)
(* codeGenerator raises its unhandled-node-kind error.                     *)
(***************************************************************************)
C9_Claimed_NoUnhandledKind ==
    ParsedOk => ~(/\ pc = "thrown"
                  /\ error.stage \in {"transform", "codeGenerator"}
                  /\ error.name = "TypeError")

(***************************************************************************)
(* C3: a call is wrapped in an ExpressionStatement and ends with ";" if    *)
(* and only if its source parent is the Program; a call nested at any      *)
(* depth is an argument as it stands, with no wrapper and no ";".          *)
(***************************************************************************)
RECURSIVE NoStatementInside(_)
\* no argument of this target call, at any depth, is an ExpressionStatement
NoStatementInside(call) ==
    \A j \in 1..Len(call.arguments) :
        /\ call.arguments[j].type # "ExpressionStatement"
        /\ call.arguments[j].type = "CallExpression" => NoStatementInside(call.arguments[j])

TopLevelCalls(tree) == { i \in 1..Len(tree.body) : tree.body[i].type = "CallExpression" }

SemicolonFree(toks) == \A i \in 1..Len(toks) : \A j \in 1..Len(toks[i].value) : toks[i].value[j] # ";"

C3_StatementOnlyAtTopLevel ==
    /\ TransformedOk =>
          /\ Len(newAST.body) = Len(ast.body)
          /\ \A i \in 1..Len(ast.body) :
                IF ast.body[i].type = "CallExpression"
                THEN /\ newAST.body[i].type = "ExpressionStatement"
                     /\ newAST.body[i].expression.type = "CallExpression"
                     /\ NoStatementInside(newAST.body[i].expression)
                ELSE newAST.body[i].type # "ExpressionStatement"
    /\ (pc = "done" /\ SemicolonFree(tokens)) =>
          /\ Cardinality({ k \in 1..Len(output) : output[k] = ";" })
                = Cardinality(TopLevelCalls(ast))
          /\ \A k \in 1..Len(output) :
                output[k] = ";" =>
                    /\ k > 1
                    /\ output[k - 1] = ")"
                    /\ (k = Len(output) \/ output[k + 1] = "\n")

\* an output with a call nested in a top-level call
C3_Witness ==
    /\ pc = "done"
    /\ \E i \in TopLevelCalls(ast) :
          \E j \in 1..Len(ast.body[i].params) :
              ast.body[i].params[j].type = "CallExpression"
    /\ \E i \in 1..Len(ast.body) : ast.body[i].type = "NumberLiteral"

(***************************************************************************)
(* C4: for every source call that is transformed, the target call has as   *)
(* many arguments as the source call has params, and its i-th argument is  *)
(* the translation of the i-th param.                                      *)
(***************************************************************************)
RECURSIVE Translates(_, _)
\* tgt is the target node of the source node src
Translates(src, tgt) ==
    IF src.type = "CallExpression"
    THEN LET call == IF tgt.type = "ExpressionStatement" THEN tgt.expression ELSE tgt
         IN  /\ call.type = "CallExpression"
             /\ call.callee = [type |-> "Identifier", name |-> src.name]
             /\ Len(call.arguments) = Len(src.params)
             /\ \A j \in 1..Len(src.params) : Translates(src.params[j], call.arguments[j])
    ELSE IF src.type = "NumberLiteral"
    THEN tgt = [type |-> "NumberLiteral", value |-> src.value]
    ELSE IF IsStringNode(src)
    THEN tgt = [type |-> "StringLiteral", value |-> src.value]
    ELSE FALSE

C4_ArgumentsFollowParams ==
    TransformedOk =>
        /\ Len(newAST.body) = Len(ast.body)
        /\ \A i \in 1..Len(ast.body) : Translates(ast.body[i], newAST.body[i])

\* a transformed call whose params hold a nested call and then a literal
C4_Witness ==
    /\ TransformedOk
    /\ \E i \in TopLevelCalls(ast) :
          LET params == ast.body[i].params
          IN  \E j \in 1..Len(params) : \E k \in 1..Len(params) :
                  /\ j < k
                  /\ params[j].type = "CallExpression"
                  /\ params[k].type = "NumberLiteral"

(***************************************************************************)
(* The digit runs of a text, read without the tokenizer.                   *)
(***************************************************************************)
Flush(acc, cur) == IF cur = <<>> THEN acc ELSE Append(acc, cur)

\* the maximal digit runs of text from position i on; with quoting, those
\* outside string literals (quote: the literal position i is in, "" outside)
RECURSIVE Runs(_, _, _, _, _, _)
Runs(text, i, quoting, quote, cur, acc) ==
    IF i > Len(text) THEN Flush(acc, cur)
    ELSE IF quote # ""
    THEN Runs(text, i + 1, quoting, IF text[i] = quote THEN "" ELSE quote, <<>>, acc)
    ELSE IF quoting /\ text[i] \in QuoteChars
    THEN Runs(text, i + 1, quoting, text[i], <<>>, Flush(acc, cur))
    ELSE IF text[i] \in DigitClass
    THEN Runs(text, i + 1, quoting, "", Append(cur, text[i]), acc)
    ELSE Runs(text, i + 1, quoting, "", <<>>, Flush(acc, cur))

AllDigitRuns(text) == Runs(text, 1, FALSE, "", <<>>, <<>>)

DigitRunsOutsideStrings(text) == Runs(text, 1, TRUE, "", <<>>, <<>>)

\* the values of the number tokens from the i-th on, callees left out or not
RECURSIVE NumberTokens(_, _, _)
NumberTokens(toks, i, callees) ==
    IF i > Len(toks) THEN <<>>
    ELSE (IF toks[i].type = "number" /\ (callees \/ ~IsCallee(toks, i))
          THEN <<toks[i].value>> ELSE <<>>)
         \o NumberTokens(toks, i + 1, callees)

\* the digit runs of every token's text, in token order
RECURSIVE TokenDigitRuns(_, _)
TokenDigitRuns(toks, i) ==
    IF i > Len(toks) THEN <<>>
    ELSE AllDigitRuns(toks[i].value) \o TokenDigitRuns(toks, i + 1)

RECURSIVE NumberLiterals(_), NumberLiteralsIn(_)
NumberLiteralsIn(nodes) ==
    IF nodes = <<>> THEN <<>>
    ELSE NumberLiterals(Head(nodes)) \o NumberLiteralsIn(Tail(nodes))

\* the values of the NumberLiteral nodes of a source or target tree, in pre-order
NumberLiterals(node) ==
    IF node.type = "NumberLiteral" THEN <<node.value>>
    ELSE IF node.type = "Program" THEN NumberLiteralsIn(node.body)
    ELSE IF node.type = "ExpressionStatement" THEN NumberLiterals(node.expression)
    ELSE IF node.type = "CallExpression"
    THEN NumberLiteralsIn(IF "params" \in DOMAIN node THEN node.params ELSE node.arguments)
    ELSE <<>>

(***************************************************************************)
(* C8: the digit text of every number literal is, at every stage from the  *)
(* token to the output, the maximal digit run of the input, character for  *)
(* character.                                                              *)
(***************************************************************************)
C8_DigitTextPreserved ==
    /\ LexOk => NumberTokens(tokens, 1, TRUE) = DigitRunsOutsideStrings(input)
    /\ ParsedOk => NumberLiterals(ast) = NumberTokens(tokens, 1, FALSE)
    /\ TransformedOk => NumberLiterals(newAST) = NumberLiterals(ast)
    /\ pc = "done" => AllDigitRuns(output) = TokenDigitRuns(tokens, 1)

\* an output that holds a number literal with a leading zero as an argument
C8_Witness ==
    /\ pc = "done"
    /\ \E i \in TopLevelCalls(ast) :
          \E j \in 1..Len(ast.body[i].params) :
              ast.body[i].params[j] = [type |-> "NumberLiteral", value |-> <<"0", "7">>]
    /\ Contains(output, <<"0", "7">>)

(***************************************************************************)
(* An invocation that stood at cpc with the given text, output and error   *)
(* ended as compile ends on that text when it is the only invocation the   *)
(* module instance ever ran.  The stack room and the heap an invocation    *)
(* finds are its caller's and the engine's, not the program's: the         *)
(* comparison is with an invocation that has stack to spare, and it leaves *)
(* aside the invocations the engine stopped for want of stack; a loop with *)
(* no exit ends as the engine has it, thrown or aborted.                   *)
(***************************************************************************)
EndsAsAlone(cpc, text, out, err) ==
    LET alone      == compile(text, InitialLastIndex, [st \in Stages |-> AmpleStack])
        overflowed == cpc = "thrown" /\ err = MaximumCallStack(err.stage)
    IN  /\ cpc = "aborted" => alone.status = "exhausted"
        /\ (cpc \in {"done", "thrown"} /\ ~overflowed) =>
              IF alone.status = "exhausted"
              THEN Outcome(cpc, out, err) = Outcome("thrown", <<>>, alone.error)
              ELSE Outcome(cpc, out, err) = alone

(***************************************************************************)
(* C7: the outcome of a compile invocation depends on its input text only. *)
(* In every sequence and every interleaving of the invocations of two      *)
(* callers, each invocation returns the output, or fails the way, compile  *)
(* does on the same text as the first and only invocation, and the         *)
(* module's RegExp objects never leave the state they were loaded in.      *)
(***************************************************************************)
C7_OutcomeDependsOnInputOnly ==
    /\ lastIndex = InitialLastIndex
    /\ EndsAsAlone(pc, input, output, error)
    /\ EndsAsAlone(other.pc, other.input, other.output, other.error)

\* after an earlier invocation ended, an invocation returned an output while
\* the other caller's invocation, past its tokenizer, was still running
C7_Witness ==
    /\ warm
    /\ pc = "done"
    /\ output # <<>>
    /\ other.pc \in {"parser", "transform", "codeGenerator"}
====
